---- MODULE Spec2Model ----
(***************************************************************************)
(* A-posteriori unimodality test (aposteriori.py).                         *)
(*                                                                         *)
(* aposteriori_unimodality is modelled statement by statement: the count   *)
(* check, the per-comment validation loop, the creation of the per-level   *)
(* statistics dict, the nested comment/level loop that appends one nDFU    *)
(* delta at a time, and the final aggregation.  level_aposteriori_whole    *)
(* and aposteriori_unit are also callable on their own, as the tests do.   *)
(*                                                                         *)
(* Real numbers are exact rationals <<numerator, denominator>> in lowest   *)
(* terms with a positive denominator.  An exception is the record field    *)
(* raised = TRUE.                                                          *)
(***************************************************************************)
EXTENDS Integers, Sequences, FiniteSets, TLC

\* ---------------------------------------------------------------- bounds
MaxComments == 2
MaxTotalAnnot == 4
MaxStats == 3
MaxDelta == 2

\* ------------------------------------------------- nDFU engine parameters
scale_min == 1
scale_max == 5
bins_num == 5

\* the score and label values the callers use
Scores == {scale_min, scale_max}
GroupLabels == <<"A", "B">>
LabelSet == {GroupLabels[k] : k \in DOMAIN GroupLabels}

\* ------------------------------------------------------ exact arithmetic
Abs(n) == IF n < 0 THEN -n ELSE n

RECURSIVE GCD(_, _)
GCD(a, b) == IF b = 0 THEN a ELSE GCD(b, a % b)

Rat(n, d) ==
    LET g == GCD(Abs(n), Abs(d))
        s == IF d < 0 THEN -1 ELSE 1
    IN  <<(s * n) \div g, (s * d) \div g>>

Zero == Rat(0, 1)
One == Rat(1, 1)
RatAdd(a, b) == Rat(a[1] * b[2] + b[1] * a[2], a[2] * b[2])
RatSub(a, b) == Rat(a[1] * b[2] - b[1] * a[2], a[2] * b[2])
RatAbs(a) == <<Abs(a[1]), a[2]>>
RatLess(a, b) == a[1] * b[2] < b[1] * a[2]

RECURSIVE SumInts(_)
SumInts(s) == IF s = <<>> THEN 0 ELSE Head(s) + SumInts(Tail(s))

RECURSIVE np_sum(_)
np_sum(s) == IF s = <<>> THEN Zero ELSE RatAdd(Head(s), np_sum(Tail(s)))

\* python values: a normal return value, or a raised exception
Return(v) == [raised |-> FALSE, value |-> v]
Raise == [raised |-> TRUE, value |-> Zero]

\* ------------------------------------------------------------ nDFU engine
\* equal-width bins over the fixed scale, last bin closed on the right
BinOf(score) ==
    IF score >= scale_max THEN bins_num
    ELSE ((score - scale_min) * bins_num) \div (scale_max - scale_min) + 1

\* counts per bin; the caller divides by the total
to_hist(scores) ==
    [b \in 1..bins_num |-> Cardinality({k \in DOMAIN scores : BinOf(scores[k]) = b})]

\* peak bin: the mode, ties broken by the lowest index
PeakBin(hist) ==
    CHOOSE b \in DOMAIN hist :
        /\ \A c \in DOMAIN hist : hist[c] <= hist[b]
        /\ \A c \in DOMAIN hist : hist[c] = hist[b] => b <= c

\* tail frequencies weighted by their distance from the peak, divided by the
\* value of the measure when the mass is split between the two extreme bins
ndfu(data) ==
    IF Len(data) = 0 THEN Raise
    ELSE LET hist == to_hist(data)
             peak == PeakBin(hist)
             weighted == SumInts([b \in 1..bins_num |-> hist[b] * Abs(b - peak)])
         IN  Return(Rat(2 * weighted, Len(data) * (bins_num - 1)))

\* ------------------------------------------------------- aposteriori.py
\* global_ndfu + level_ndfu instead of the difference
aposteriori_unit_added(global_annotations, level_annotations) ==
    LET global_ndfu == ndfu(global_annotations)
        level_ndfu == ndfu(level_annotations)
    IN  IF global_ndfu.raised \/ level_ndfu.raised THEN Raise
        ELSE Return(RatAdd(global_ndfu.value, level_ndfu.value))

aposteriori_unit(global_annotations, level_annotations) ==
    LET global_ndfu == ndfu(global_annotations)
        level_ndfu == ndfu(level_annotations)
    IN  IF global_ndfu.raised \/ level_ndfu.raised THEN Raise
        ELSE Return(RatSub(global_ndfu.value, level_ndfu.value))

\* annotations[annotator_group == level]
RECURSIVE MaskSelect(_, _, _)
MaskSelect(annotations, annotator_group, level) ==
    IF annotations = <<>> \/ annotator_group = <<>> THEN <<>>
    ELSE IF Head(annotator_group) = level
         THEN <<Head(annotations)>> \o MaskSelect(Tail(annotations), Tail(annotator_group), level)
         ELSE MaskSelect(Tail(annotations), Tail(annotator_group), level)

level_aposteriori_unit(annotations, annotator_group, level) ==
    LET level_annotations == MaskSelect(annotations, annotator_group, level)
    IN  aposteriori_unit(annotations, level_annotations)

\* scipy.stats.wilcoxon(x, y=zeros, alternative="greater").  Zero differences
\* are discarded, absolute differences get mid-ranks (kept doubled here so
\* that they stay integers), the statistic is the rank sum of the positive
\* differences and the p-value is its upper tail under the null distribution
\* of the signs.
Differences(x) == [k \in DOMAIN x |-> RatSub(x[k], Zero)]

NonzeroDiffs(x) == SelectSeq(Differences(x), LAMBDA d : d # Zero)

Rank2(d, k) ==
    2 * Cardinality({m \in DOMAIN d : RatLess(RatAbs(d[m]), RatAbs(d[k]))})
      + Cardinality({m \in DOMAIN d : RatAbs(d[m]) = RatAbs(d[k])}) + 1

RankSum2(d, S) == SumInts([k \in DOMAIN d |-> IF k \in S THEN Rank2(d, k) ELSE 0])

RPlus2(d) == RankSum2(d, {k \in DOMAIN d : d[k][1] > 0})

wilcoxon_greater(x) ==
    LET d == NonzeroDiffs(x)
        tail == {S \in SUBSET DOMAIN d : RankSum2(d, S) >= RPlus2(d)}
    IN  IF Len(d) = 0 THEN [raised |-> TRUE, statistic |-> Zero, pvalue |-> Zero]
        ELSE [raised |-> FALSE,
              statistic |-> Rat(RPlus2(d), 2),
              pvalue |-> Rat(Cardinality(tail), 2 ^ Len(d))]

\* the signed-rank test is run on every list, without the shortcut
level_aposteriori_whole_always_tests(level_aposteriori_statistics) ==
    LET w == wilcoxon_greater(level_aposteriori_statistics)
    IN  [raised |-> w.raised, value |-> w.pvalue, tested |-> TRUE]

\* .statistic is returned in place of .pvalue
level_aposteriori_whole_statistic(level_aposteriori_statistics) ==
    IF np_sum(Differences(level_aposteriori_statistics)) = Zero
    THEN [raised |-> FALSE, value |-> One, tested |-> FALSE]
    ELSE LET w == wilcoxon_greater(level_aposteriori_statistics)
         IN  [raised |-> w.raised, value |-> w.statistic, tested |-> TRUE]

level_aposteriori_whole(level_aposteriori_statistics) ==
    IF np_sum(Differences(level_aposteriori_statistics)) = Zero
    THEN [raised |-> FALSE, value |-> One, tested |-> FALSE]
    ELSE LET w == wilcoxon_greater(level_aposteriori_statistics)
         IN  [raised |-> w.raised, value |-> w.pvalue, tested |-> TRUE]

\* --------------------------------------------------------- numpy helpers
RECURSIVE np_concatenate_rec(_)
np_concatenate_rec(arrays) ==
    IF arrays = <<>> THEN <<>> ELSE Head(arrays) \o np_concatenate_rec(Tail(arrays))

\* np.concatenate of an empty list of arrays raises ValueError
np_concatenate(arrays) ==
    IF Len(arrays) = 0 THEN Raise ELSE Return(np_concatenate_rec(arrays))

\* the sorted distinct elements of a flat array
RECURSIVE SortedLabels(_, _)
SortedLabels(S, k) ==
    IF k > Len(GroupLabels) THEN <<>>
    ELSE (IF GroupLabels[k] \in S THEN <<GroupLabels[k]>> ELSE <<>>) \o SortedLabels(S, k + 1)

np_unique(array) == SortedLabels({array[k] : k \in DOMAIN array}, 1)

\* np.unique of a list of arrays: the list is first converted to one array,
\* which fails when the arrays differ in length
Inhomogeneous(arrays) ==
    \E a \in DOMAIN arrays, b \in DOMAIN arrays : Len(arrays[a]) # Len(arrays[b])

np_unique_of_list(arrays) ==
    IF Inhomogeneous(arrays) THEN Raise
    ELSE Return(np_unique(np_concatenate_rec(arrays)))

\* ------------------------------------------------------------------ state
VARIABLES
    pc,                             \* position in the running call
    annotations,                    \* argument: one score array per comment
    annotator_group,                \* argument: one label array per comment
    comment_idx,                    \* outer loop of lines 57-62
    level_idx,                      \* inner loop of lines 58-62
    aposteriori_unit_statistics,    \* level -> list of deltas
    aposteriori_final_statistics,   \* level -> p-value (the returned dict)
    tested_levels,                  \* levels whose aggregate ran the signed-rank test
    error,                          \* "none" or the exception type raised
    whole_arg,                      \* argument of a direct level_aposteriori_whole call
    whole_ret,                      \* its result
    unit_arg,                       \* arguments of a direct aposteriori_unit call
    unit_ret                        \* its result

vars == <<pc, annotations, annotator_group, comment_idx, level_idx,
          aposteriori_unit_statistics, aposteriori_final_statistics,
          tested_levels, error, whole_arg, whole_ret, unit_arg, unit_ret>>

EmptyDict == [l \in {} |-> Zero]

SeqsUpTo(S, n) == UNION {[1..k -> S] : k \in 0..n}

\* lists of at most n arrays over S holding at most t elements in all
RECURSIVE ListsOf(_, _, _)
ListsOf(S, n, t) ==
    IF n = 0 THEN {<<>>}
    ELSE {<<>>} \cup UNION {{<<a>> \o rest : rest \in ListsOf(S, n - 1, t - Len(a))} :
                                a \in SeqsUpTo(S, t)}

ScoreArrays == SeqsUpTo(Scores, MaxTotalAnnot)
DeltaValues == {Rat(k, 4) : k \in -MaxDelta..MaxDelta}
DeltaLists == SeqsUpTo(DeltaValues, MaxStats)

NoResult == [raised |-> FALSE, value |-> Zero, tested |-> FALSE]

Init ==
    /\ pc = "idle"
    /\ annotations = <<>>
    /\ annotator_group = <<>>
    /\ comment_idx = 0
    /\ level_idx = 0
    /\ aposteriori_unit_statistics = EmptyDict
    /\ aposteriori_final_statistics = EmptyDict
    /\ tested_levels = {}
    /\ error = "none"
    /\ whole_arg = <<>>
    /\ whole_ret = NoResult
    /\ unit_arg = <<>>
    /\ unit_ret = Raise

\* ------------------------------------------------ aposteriori_unimodality
\* only the length comparison, without the emptiness tests
InvalidComment_length_only(annotation, group) ==
    Len(annotation) # Len(group)

\* line 40: the condition under which the validation loop raises
InvalidComment(annotation, group) ==
    Len(annotation) # Len(group) \/ Len(annotation) = 0 \/ Len(group) = 0

\* the early return is never taken
IsEmptyInput_never(comments) ==
    FALSE

\* line 36
IsEmptyInput(comments) ==
    Len(comments) = 0

\* zip stops at the shorter list
ZipRange(a, b) == 1..(IF Len(a) < Len(b) THEN Len(a) ELSE Len(b))

\* the caller passes any two lists of arrays
Call ==
    /\ pc = "idle"
    /\ pc' = "entered"
    /\ \E a \in ListsOf(Scores, MaxComments, MaxTotalAnnot),
          g \in ListsOf(LabelSet, MaxComments, MaxTotalAnnot) :
          annotations' = a /\ annotator_group' = g
    /\ UNCHANGED <<comment_idx, level_idx, aposteriori_unit_statistics,
                   aposteriori_final_statistics, tested_levels, error,
                   whole_arg, whole_ret, unit_arg, unit_ret>>

\* lines 31-37
CheckCounts ==
    /\ pc = "entered"
    /\ IF Len(annotations) # Len(annotator_group)
       THEN pc' = "raised" /\ error' = "ValueError"
       ELSE IF IsEmptyInput(annotations)
            THEN pc' = "returned" /\ error' = "none"
            ELSE pc' = "validate" /\ error' = "none"
    /\ UNCHANGED <<annotations, annotator_group, comment_idx, level_idx,
                   aposteriori_unit_statistics, aposteriori_final_statistics,
                   tested_levels, whole_arg, whole_ret, unit_arg, unit_ret>>

\* lines 39-49 (the second loop repeats a test the first one already made)
Validate ==
    /\ pc = "validate"
    /\ IF \E k \in ZipRange(annotations, annotator_group) :
              InvalidComment(annotations[k], annotator_group[k])
       THEN pc' = "raised" /\ error' = "ValueError"
       ELSE pc' = "init_statistics" /\ error' = "none"
    /\ UNCHANGED <<annotations, annotator_group, comment_idx, level_idx,
                   aposteriori_unit_statistics, aposteriori_final_statistics,
                   tested_levels, whole_arg, whole_ret, unit_arg, unit_ret>>

\* lines 52-54
InitStatistics ==
    /\ pc = "init_statistics"
    /\ LET flat == np_concatenate(annotator_group)
       IN  IF flat.raised
           THEN /\ pc' = "raised"
                /\ error' = "ValueError"
                /\ UNCHANGED <<aposteriori_unit_statistics, comment_idx, level_idx>>
           ELSE /\ pc' = "loop"
                /\ error' = "none"
                /\ aposteriori_unit_statistics' =
                       [key \in {flat.value[k] : k \in DOMAIN flat.value} |-> <<>>]
                /\ comment_idx' = 1
                /\ level_idx' = 1
    /\ UNCHANGED <<annotations, annotator_group, aposteriori_final_statistics,
                   tested_levels, whole_arg, whole_ret, unit_arg, unit_ret>>

\* lines 57-62, one evaluation of the inner loop header or body at a time
LoopStep ==
    /\ pc = "loop"
    /\ LET levels == np_unique_of_list(annotator_group)
       IN  IF levels.raised
           THEN /\ pc' = "raised"
                /\ error' \in {"ValueError", "TypeError"}   \* depends on the numpy version
                /\ UNCHANGED <<aposteriori_unit_statistics, comment_idx, level_idx>>
           ELSE IF level_idx > Len(levels.value)
           THEN /\ pc' = IF comment_idx = Len(annotations) THEN "aggregate" ELSE "loop"
                /\ comment_idx' = comment_idx + 1
                /\ level_idx' = 1
                /\ UNCHANGED <<aposteriori_unit_statistics, error>>
           ELSE LET level == levels.value[level_idx]
                    aposteriori_stat ==
                        level_aposteriori_unit(annotations[comment_idx],
                                               annotator_group[comment_idx], level)
                IN  IF aposteriori_stat.raised
                    THEN /\ pc' = "raised"
                         /\ error' = "ValueError"
                         /\ UNCHANGED <<aposteriori_unit_statistics, comment_idx, level_idx>>
                    ELSE /\ pc' = "loop"
                         /\ aposteriori_unit_statistics' =
                                [aposteriori_unit_statistics EXCEPT
                                    ![level] = Append(@, aposteriori_stat.value)]
                         /\ level_idx' = level_idx + 1
                         /\ UNCHANGED <<comment_idx, error>>
    /\ UNCHANGED <<annotations, annotator_group, aposteriori_final_statistics,
                   tested_levels, whole_arg, whole_ret, unit_arg, unit_ret>>

\* lines 65-69
Aggregate ==
    /\ pc = "aggregate"
    /\ LET whole == [level \in DOMAIN aposteriori_unit_statistics |->
                        level_aposteriori_whole(aposteriori_unit_statistics[level])]
       IN  IF \E level \in DOMAIN whole : whole[level].raised
           THEN /\ pc' = "raised"
                /\ error' = "ValueError"
                /\ UNCHANGED <<aposteriori_final_statistics, tested_levels>>
           ELSE /\ pc' = "returned"
                /\ error' = "none"
                /\ aposteriori_final_statistics' =
                       [level \in DOMAIN whole |-> whole[level].value]
                /\ tested_levels' = {level \in DOMAIN whole : whole[level].tested}
    /\ UNCHANGED <<annotations, annotator_group, comment_idx, level_idx,
                   aposteriori_unit_statistics, whole_arg, whole_ret, unit_arg, unit_ret>>

\* a direct call of level_aposteriori_whole
CallWhole ==
    /\ pc = "idle"
    /\ pc' = "whole_done"
    /\ \E stats \in DeltaLists :
          whole_arg' = stats /\ whole_ret' = level_aposteriori_whole(stats)
    /\ UNCHANGED <<annotations, annotator_group, comment_idx, level_idx,
                   aposteriori_unit_statistics, aposteriori_final_statistics,
                   tested_levels, error, unit_arg, unit_ret>>

\* a direct call of aposteriori_unit
CallUnit ==
    /\ pc = "idle"
    /\ pc' = "unit_done"
    /\ \E global_annotations \in ScoreArrays, level_annotations \in ScoreArrays :
          /\ unit_arg' = <<global_annotations, level_annotations>>
          /\ unit_ret' = aposteriori_unit(global_annotations, level_annotations)
    /\ UNCHANGED <<annotations, annotator_group, comment_idx, level_idx,
                   aposteriori_unit_statistics, aposteriori_final_statistics,
                   tested_levels, error, whole_arg, whole_ret>>

Next ==
    \/ Call
    \/ CheckCounts
    \/ Validate
    \/ InitStatistics
    \/ LoopStep
    \/ Aggregate
    \/ CallWhole
    \/ CallUnit

Spec == Init /\ [][Next]_vars

TypeOK ==
    /\ pc \in {"idle", "entered", "validate", "init_statistics", "loop",
               "aggregate", "returned", "raised", "whole_done", "unit_done"}
    /\ error \in {"none", "ValueError", "TypeError"}

\* ------------------------------------------------------------ properties
InCall == pc \in {"entered", "validate", "init_statistics", "loop", "aggregate",
                  "returned", "raised"}

Finished == pc \in {"returned", "raised"}

LabelsOf(array) == {array[k] : k \in DOMAIN array}

DatasetLevels == UNION {LabelsOf(annotator_group[k]) : k \in DOMAIN annotator_group}

CommentsWith(level) == {k \in DOMAIN annotator_group : level \in LabelsOf(annotator_group[k])}

\* equal comment counts, every comment non-empty with as many labels as scores
ValidInput ==
    /\ Len(annotations) = Len(annotator_group)
    /\ \A k \in DOMAIN annotations :
          Len(annotations[k]) > 0 /\ Len(annotations[k]) = Len(annotator_group[k])

\* cases (a), (b), (c) of C1
RejectedInput ==
    \/ Len(annotations) # Len(annotator_group)
    \/ \E k \in ZipRange(annotations, annotator_group) :
          Len(annotations[k]) # Len(annotator_group[k])
    \/ \E k \in DOMAIN annotations : Len(annotations[k]) = 0

InUnitInterval(p) == 0 <= p[1] /\ p[1] <= p[2]

\* C1: a call whose comment counts differ, or in which some comment has
\* score and label arrays of different lengths, or in which some comment has
\* no annotations, never gets past validation: it ends raising ValueError,
\* with no statistics dict created and nothing returned.
C1_InvalidInputRaises ==
    (RejectedInput /\ InCall /\ pc \notin {"entered", "validate"}) =>
        /\ pc = "raised"
        /\ error = "ValueError"
        /\ aposteriori_unit_statistics = EmptyDict
        /\ aposteriori_final_statistics = EmptyDict

\* case (c) behind a valid first comment
C1_Witness ==
    /\ pc = "raised"
    /\ Len(annotations) = 2 /\ Len(annotator_group) = 2
    /\ Len(annotations[1]) > 0 /\ Len(annotations[1]) = Len(annotator_group[1])
    /\ Len(annotations[2]) = 0 /\ Len(annotator_group[2]) = 0

\* C2: when some level of the dataset is missing from some comment, the call
\* still returns, and every level's delta list holds exactly one delta per
\* comment in which the level occurs.
C2_MissingLevelSkipped ==
    (Finished /\ ValidInput
       /\ \E k \in DOMAIN annotator_group : LabelsOf(annotator_group[k]) # DatasetLevels) =>
        /\ pc = "returned"
        /\ \A level \in DatasetLevels :
              Len(aposteriori_unit_statistics[level]) = Cardinality(CommentsWith(level))

\* C3: a call that raises has not stored any delta.
C3_NoFailureAfterDelta ==
    pc = "raised" =>
        \A level \in DOMAIN aposteriori_unit_statistics :
            aposteriori_unit_statistics[level] = <<>>

\* C4: the call with no comments and no label arrays returns the empty
\* mapping and raises nothing.
C4_EmptyInputReturnsEmpty ==
    (InCall /\ pc # "entered" /\ annotations = <<>> /\ annotator_group = <<>>) =>
        /\ pc = "returned"
        /\ error = "none"
        /\ aposteriori_final_statistics = EmptyDict

C4_Witness ==
    /\ pc = "returned"
    /\ annotations = <<>>
    /\ annotator_group = <<>>
    /\ aposteriori_final_statistics = EmptyDict

\* C5: on a valid input in which every level occurs in every comment
\* (comments may differ in their number of annotators) the call returns, the
\* keys of the result are the levels of the dataset, and each level has one
\* delta per comment.
C5_ValidInputSucceeds ==
    (Finished /\ ValidInput
       /\ \A k \in DOMAIN annotator_group : LabelsOf(annotator_group[k]) = DatasetLevels) =>
        /\ pc = "returned"
        /\ DOMAIN aposteriori_final_statistics = DatasetLevels
        /\ \A level \in DatasetLevels :
              Len(aposteriori_unit_statistics[level]) = Len(annotations)

\* C6: when all annotators of all comments are in one level L, the call
\* returns exactly {L: 1.0}.
C6_SingleGroupIsOne ==
    (Finished /\ ValidInput /\ Cardinality(DatasetLevels) = 1) =>
        /\ pc = "returned"
        /\ aposteriori_final_statistics = [level \in DatasetLevels |-> One]

\* C7: level_aposteriori_whole on a list of zeros, of any length, returns
\* 1.0 and does not run the signed-rank test.
C7_AllZeroIsOne ==
    (pc = "whole_done" /\ \A k \in DOMAIN whole_arg : whole_arg[k] = Zero) =>
        /\ ~whole_ret.raised
        /\ whole_ret.value = One
        /\ ~whole_ret.tested

C7_Witness ==
    /\ pc = "whole_done"
    /\ Len(whole_arg) >= 2
    /\ \A k \in DOMAIN whole_arg : whole_arg[k] = Zero
    /\ whole_ret.value = One

\* C8: aposteriori_unit(g, g) is exactly 0 for every non-empty g.
C8_UnitSelfIsZero ==
    (pc = "unit_done" /\ unit_arg[1] = unit_arg[2] /\ Len(unit_arg[1]) > 0) =>
        /\ ~unit_ret.raised
        /\ unit_ret.value = Zero

\* a polarised g: its own nDFU is not zero
C8_Witness ==
    /\ pc = "unit_done"
    /\ unit_arg[1] = unit_arg[2]
    /\ Len(unit_arg[1]) > 1
    /\ ndfu(unit_arg[1]).value # Zero
    /\ unit_ret.value = Zero

\* C9: every value of a returned mapping lies in [0, 1], and so does the
\* value level_aposteriori_whole returns for any list of deltas.
C9_PValueInUnitInterval ==
    /\ pc = "returned" =>
          \A level \in DOMAIN aposteriori_final_statistics :
              InUnitInterval(aposteriori_final_statistics[level])
    /\ pc = "whole_done" =>
          ~whole_ret.raised /\ InUnitInterval(whole_ret.value)

\* a returned mapping with a p-value that the signed-rank test produced
C9_Witness ==
    /\ pc = "returned"
    /\ \E level \in tested_levels :
          /\ Len(aposteriori_unit_statistics[level]) = 2
          /\ aposteriori_final_statistics[level] # One
          /\ InUnitInterval(aposteriori_final_statistics[level])

\* C10: for every list with at least one nonzero delta, the signed-rank test
\* is run and its one-sided p-value is what level_aposteriori_whole returns.
C10_ShortcutOnlyWhenAllZero ==
    (pc = "whole_done" /\ \E k \in DOMAIN whole_arg : whole_arg[k] # Zero) =>
        /\ whole_ret.tested
        /\ whole_ret.value = wilcoxon_greater(whole_arg).pvalue

====
